---- MODULE Spec2Model ----
(***************************************************************************)
(* A model of gitlab_repo_import.py: GitLabRepoImport.run, do_repo,        *)
(* ignore_files_callback, import_repo, get_gitlab_project and              *)
(* update_project_settings, with the settings mapping parse_args builds.   *)
(*                                                                         *)
(* Python values are written as strings: "None", "True", "False"; a        *)
(* visibility level is an integer as in VISIBILITY_LEVELS.                 *)
(***************************************************************************)
EXTENDS Integers, Sequences, FiniteSets, TLC

VARIABLES
    repo_paths,          \* run(): the list of repo paths
    project_settings,    \* args.settings: setting name -> target value
    order,               \* the order in which project_settings.items() yields the keys
    remove_on_fail,      \* self.remove_on_fail
    ignore_broken_links, \* self.ignore_broken_links
    ignore_refs_remotes, \* self.ignore_refs_remotes
    migrate_hooks,       \* run()'s migrate_hooks argument
    dests,               \* filesystem: repo name -> the directory <create_path>/<repo_name>.git
    remote,              \* GitLab server: project name -> the project record
    pc,                  \* position of run()
    i,                   \* index of the next element of repo_paths (1-based)
    succeeded,           \* run()'s tally
    failed,              \* run()'s tally
    exit_status,         \* exit status of the process, "running" before it ends
    last,                \* what the most recent loop iteration did
    project,             \* the gitlab.Project object handed to update_project_settings
    saves,               \* per call of update_project_settings on `project`: its save() calls
    call_result,         \* per call of update_project_settings on `project`: how it ended
    src_tree,            \* the source tree handed to shutil.copytree
    copy_result          \* what the copy produced

vars == <<repo_paths, project_settings, order, remove_on_fail, ignore_broken_links,
          ignore_refs_remotes, migrate_hooks, dests, remote, pc, i, succeeded, failed,
          exit_status, last, project, saves, call_result, src_tree, copy_result>>

\* ------------------------------------------------------------------ bounds

\* longest list of repo paths given to run()
MaxRepos == 2

\* number of successive update_project_settings calls on one project object
MaxCalls == 2

\* ------------------------------------------------------------------ constants

None == "None"

\* mapping of the CLI arguments to gitlab.Project attribute names
BOOLEAN_SETTING_NAMES ==
    [issues |-> "issues_enabled",
     merge_requests |-> "merge_requests_enabled",
     wiki |-> "wiki_enabled",
     snippets |-> "snippets_enabled"]

VISIBILITY_LEVELS == [private |-> 0, internal |-> 10, public |-> 20]

SettingNames == {"visibility"} \cup DOMAIN BOOLEAN_SETTING_NAMES

\* ------------------------------------------------------------------ settings

\* every mapping parse_args can put in args.settings: 'visibility' is the
\* --visibility choice or None, each feature is True, False or None
parse_args ==
    { s \in [SettingNames -> {None, "True", "False", "private", "internal", "public"}] :
        /\ s["visibility"] \in {None} \cup DOMAIN VISIBILITY_LEVELS
        /\ \A n \in DOMAIN BOOLEAN_SETTING_NAMES : s[n] \in {None, "True", "False"} }

\* the states of a gitlab.Project object, as far as the settings go
Projects ==
    [visibility_level : {VISIBILITY_LEVELS[v] : v \in DOMAIN VISIBILITY_LEVELS},
     issues_enabled : {"True", "False"},
     merge_requests_enabled : {"True", "False"},
     wiki_enabled : {"True", "False"},
     snippets_enabled : {"True", "False"}]

Insert(seq, k, x) == SubSeq(seq, 1, k) \o <<x>> \o SubSeq(seq, k + 1, Len(seq))

\* orders in which a dict of the five keys may be iterated: 'visibility' at any
\* position among the feature keys
Orders ==
    { Insert(b, k, "visibility") :
        b \in { <<"issues", "merge_requests", "wiki", "snippets">>,
                <<"snippets", "wiki", "merge_requests", "issues">> },
        k \in 0..4 }

\* a comparison that never finds the current value at the target
already_equal_never(current, value) == FALSE

\* update_project_settings: "current == value", the setting is at its target
already_equal(current, value) == current = value

\* update_project_settings: "value is not None"
is_not_None(value) == value # None

\* the for loop of update_project_settings over the items still to come;
\* raised is the KeyError of VISIBILITY_LEVELS[value]
RECURSIVE stage_settings(_, _, _, _)
stage_settings(items, settings, proj, changes) ==
    IF items = <<>>
    THEN [project |-> proj, changes |-> changes, raised |-> FALSE]
    ELSE LET setting == Head(items)
             value == settings[setting]
         IN IF setting = "visibility"
            THEN IF value \notin DOMAIN VISIBILITY_LEVELS
                 THEN [project |-> proj, changes |-> changes, raised |-> TRUE]
                 ELSE IF already_equal(proj.visibility_level, VISIBILITY_LEVELS[value])
                      THEN stage_settings(Tail(items), settings, proj, changes)
                      ELSE stage_settings(Tail(items), settings,
                               [proj EXCEPT !.visibility_level = VISIBILITY_LEVELS[value]],
                               TRUE)
            ELSE IF setting \in DOMAIN BOOLEAN_SETTING_NAMES /\ is_not_None(value)
                 THEN LET attr_name == BOOLEAN_SETTING_NAMES[setting]
                      IN IF already_equal(proj[attr_name], value)
                         THEN stage_settings(Tail(items), settings, proj, changes)
                         ELSE stage_settings(Tail(items), settings,
                                  [proj EXCEPT ![attr_name] = value], TRUE)
                 ELSE stage_settings(Tail(items), settings, proj, changes)

\* number of project.save() calls update_project_settings makes: one if changes
save_calls(staged) == IF staged.raised THEN 0 ELSE IF staged.changes THEN 1 ELSE 0

\* update_project_settings(project_settings, proj) with the save succeeding or not:
\* the project object afterwards, the record on the server afterwards, the number
\* of save() calls and how the call ended
update_project_settings(settings, items, proj, server, save_ok) ==
    LET staged == stage_settings(items, settings, proj, FALSE)
        n == save_calls(staged)
    IN [project |-> staged.project,
        server  |-> IF n > 0 /\ save_ok THEN staged.project ELSE server,
        saves   |-> n,
        result  |-> IF staged.raised THEN "KeyError"
                    ELSE IF n = 0 THEN "no_changes"
                    ELSE IF save_ok THEN "saved" ELSE "save_failed"]

\* ------------------------------------------------------------------ copy

\* an entry of a repository tree: its path below the repository as a sequence of
\* names, and whether it is a directory, a file (or a link that resolves) or a
\* symbolic link whose target is missing
Entry(path, kind) == [path |-> path, kind |-> kind]

EntryUniverse ==
    { Entry(<<"HEAD">>, "file"),
      Entry(<<"dead">>, "broken"),
      Entry(<<"hooks">>, "dir"),
      Entry(<<"hooks", "update">>, "file"),
      Entry(<<"hooks", "dead">>, "broken"),
      Entry(<<"custom_hooks">>, "dir"),
      Entry(<<"custom_hooks", "hooks">>, "dir"),
      Entry(<<"refs">>, "dir"),
      Entry(<<"refs", "heads">>, "dir"),
      Entry(<<"refs", "remotes">>, "dir"),
      Entry(<<"refs", "remotes", "origin">>, "file"),
      Entry(<<"refs", "remotes", "dead">>, "broken"),
      Entry(<<"refs", "remotes_old">>, "file") }

IsPrefix(p, q) == Len(p) <= Len(q) /\ SubSeq(q, 1, Len(p)) = p

Parent(path) == SubSeq(path, 1, Len(path) - 1)

\* the trees a filesystem can hold: every entry lies in a directory of the tree
Trees ==
    { t \in SUBSET EntryUniverse :
        \A e \in t : Len(e.path) > 1 => Entry(Parent(e.path), "dir") \in t }

\* os.listdir(dirname): the entries directly in the directory
listdir(tree, dirname) ==
    { e \in tree : Len(e.path) = Len(dirname) + 1 /\ IsPrefix(dirname, e.path) }

\* os.path.exists follows symbolic links
path_exists(e) == e.kind # "broken"

\* names that start with the characters "remotes"
StartsWithRemotes == {"remotes", "remotes_old"}

\* path.startswith(self.refs_remotes_path), refs_remotes_path being
\* os.path.join(repo_path, 'refs', 'remotes'): a comparison of characters
startswith_refs_remotes(path) ==
    Len(path) >= 2 /\ path[1] = "refs" /\ path[2] \in StartsWithRemotes

\* the path lies under <repo_path>/refs/remotes (the directory itself included)
under_refs_remotes(path) == IsPrefix(<<"refs", "remotes">>, path)

\* a callback without the refs/remotes branch
ignore_files_callback_no_refs(items, ibl, irr) ==
    { item \in items : ibl /\ ~path_exists(item) }

\* ignore_files_callback(dirname, items): the items to skip
ignore_files_callback(items, ibl, irr) ==
    { item \in items :
        IF ibl /\ ~path_exists(item) THEN TRUE
        ELSE IF irr /\ startswith_refs_remotes(item.path) THEN TRUE
        ELSE FALSE }

\* shutil.copytree(src, dst, ignore=...) below dirname, symlinks=False: every name
\* the callback does not skip is copied, a directory by a recursive call; a
\* link whose target is missing cannot be read, and its error is collected.
\* The result holds every entry tried, with how it went
RECURSIVE copy_names(_, _, _, _)
copy_names(tree, dirname, ibl, irr) ==
    LET names == listdir(tree, dirname)
        ignored_names == ignore_files_callback(names, ibl, irr)
    IN { [entry |-> e, ok |-> e.kind # "broken"] : e \in names \ ignored_names }
       \cup UNION { copy_names(tree, d.path, ibl, irr) :
                      d \in { e \in names \ ignored_names : e.kind = "dir" } }

\* copytree as a whole: what the destination holds afterwards, and the errors
\* it raises as shutil.Error once everything else is copied
copytree(tree, dirname, ibl, irr) ==
    LET tried == copy_names(tree, dirname, ibl, irr)
    IN [copied |-> { t.entry : t \in { x \in tried : x.ok } },
        errors |-> { t.entry : t \in { x \in tried : ~x.ok } }]

\* shutil.move(hook_dir, new_dir): a rename, or a move into new_dir when that
\* is a directory already
Reroot(path, from, to) == to \o SubSeq(path, Len(from) + 1, Len(path))

move_target(entries) ==
    IF Entry(<<"custom_hooks">>, "dir") \in entries
    THEN <<"custom_hooks", "hooks">>
    ELSE <<"custom_hooks">>

\* shutil.move raises when the place inside new_dir is taken
move_raises(entries) ==
    \E e \in entries : e.path = <<"custom_hooks", "hooks">>

move_hooks(entries) ==
    { IF IsPrefix(<<"hooks">>, e.path)
      THEN Entry(Reroot(e.path, <<"hooks">>, move_target(entries)), e.kind)
      ELSE e : e \in entries }

has_hooks(entries) == \E e \in entries : e.path = <<"hooks">>

\* ------------------------------------------------------------------ do_repo

\* a repo path: its directory, the base name without a '.git' suffix, and
\* whether the base name ends with '.git'
RepoPath(dir, stem, dotgit) == [dir |-> dir, stem |-> stem, dotgit |-> dotgit]

\* the repo paths the runs are given: /data/a/foo.git, /data/b/foo, /data/a/bar.git
PathChoices ==
    { RepoPath("/data/a", "foo", TRUE),
      RepoPath("/data/b", "foo", FALSE),
      RepoPath("/data/a", "bar", TRUE) }

Stems == { p.stem : p \in PathChoices }

\* do_repo: repo_name is the base name with '.git' appended unless it ends with
\* it; a repo name is written here by what precedes its '.git'
repo_name(repo_path) == repo_path.stem

\* do_repo: project_name is the base name without a final '.git'
project_name(repo_path) == repo_path.stem

NoDir == [exists |-> FALSE, entries |-> {}]

Dir(entries) == [exists |-> TRUE, entries |-> entries]

\* the source trees of the three repos: one with hooks, one from gitolite with
\* a dangling link and refs/remotes, one that has hooks and custom_hooks
source_tree(repo_path) ==
    IF repo_path.stem = "bar"
    THEN { Entry(<<"HEAD">>, "file"), Entry(<<"hooks">>, "dir"),
           Entry(<<"custom_hooks">>, "dir") }
    ELSE IF repo_path.dotgit
    THEN { Entry(<<"HEAD">>, "file"), Entry(<<"hooks">>, "dir"),
           Entry(<<"hooks", "update">>, "file") }
    ELSE { Entry(<<"HEAD">>, "file"), Entry(<<"dead">>, "broken"), Entry(<<"refs">>, "dir"),
           Entry(<<"refs", "remotes">>, "dir"),
           Entry(<<"refs", "remotes", "origin">>, "file") }

\* a project as the server creates it
NewProject ==
    [visibility_level |-> VISIBILITY_LEVELS["private"], issues_enabled |-> "True",
     merge_requests_enabled |-> "True", wiki_enabled |-> "True",
     snippets_enabled |-> "True"]

NoProject == [exists |-> FALSE, attrs |-> NewProject]

\* a check that never finds the destination
dest_path_exists_never(name) == FALSE

\* do_repo: os.path.exists(dest_path)
dest_path_exists(name) == dests[name].exists

\* do_repo's try block: copytree, chown, hook migration. env_error is a failure
\* of the operating system: "makedirs" (the destination cannot be created),
\* "chown" (ownership cannot be changed) or "none"
copy_step(tree, env_error) ==
    IF env_error = "makedirs"
    THEN [raised |-> TRUE, dir |-> NoDir, ops |-> {"copy"}]
    ELSE LET ct == copytree(tree, <<>>, ignore_broken_links, ignore_refs_remotes)
         IN IF ct.errors # {}
            THEN [raised |-> TRUE, dir |-> Dir(ct.copied), ops |-> {"copy"}]
            ELSE IF env_error = "chown"
            THEN [raised |-> TRUE, dir |-> Dir(ct.copied), ops |-> {"copy", "chown"}]
            ELSE IF migrate_hooks /\ has_hooks(ct.copied)
            THEN IF move_raises(ct.copied)
                 THEN [raised |-> TRUE, dir |-> Dir(ct.copied),
                       ops |-> {"copy", "chown", "move"}]
                 ELSE [raised |-> FALSE, dir |-> Dir(move_hooks(ct.copied)),
                       ops |-> {"copy", "chown", "move"}]
            ELSE [raised |-> FALSE, dir |-> Dir(ct.copied), ops |-> {"copy", "chown"}]

\* do_repo's except block: the destination is removed if remove_on_fail is set
\* and it exists
remove_after_copy(dir) == remove_on_fail /\ dir.exists

\* gitlab-rake gitlab:import:repos: a project for every repository directory
\* that has none
rake_import(dirs, server) ==
    [n \in Stems |->
        IF dirs[n].exists /\ ~server[n].exists
        THEN [exists |-> TRUE, attrs |-> NewProject]
        ELSE server[n]]

\* get_gitlab_project: the project of that name and namespace among those
\* conn.all_projects() lists
get_gitlab_project(server, name, listed) == server[name].exists /\ listed

\* do_repo(create_path, repo_path, group_name, project_settings, migrate_hooks):
\* what it returns ("raise" for an exception that leaves it), and the filesystem
\* and the server afterwards. import_result is how gitlab-rake ended: "ok" or
\* "nonzero" (CalledProcessError)
do_repo(repo_path, tree, env_error, import_result, listed, save_ok) ==
    LET name == repo_name(repo_path)
        pname == project_name(repo_path)
        base == [ret |-> "False", outcome |-> "collision", ops |-> {},
                 dests |-> dests, remote |-> remote]
    IN IF dest_path_exists(name) THEN base
       ELSE
       LET cp == copy_step(tree, env_error)
           d1 == [dests EXCEPT ![name] = cp.dir]
       IN IF cp.raised
          THEN IF remove_after_copy(cp.dir)
               THEN [base EXCEPT !.ret = "None", !.outcome = "copy_failed",
                                 !.ops = cp.ops \cup {"rmtree"},
                                 !.dests = [dests EXCEPT ![name] = NoDir]]
               ELSE [base EXCEPT !.ret = "None", !.outcome = "copy_failed",
                                 !.ops = cp.ops, !.dests = d1]
          ELSE IF import_result = "nonzero"
          THEN [base EXCEPT !.outcome = "import_failed",
                            !.ops = cp.ops \cup {"import"}, !.dests = d1]
          ELSE
          LET r1 == rake_import(d1, remote)
              ops1 == cp.ops \cup {"import", "lookup"}
          IN IF ~get_gitlab_project(r1, pname, listed)
             THEN [base EXCEPT !.outcome = "not_found", !.ops = ops1,
                               !.dests = d1, !.remote = r1]
             ELSE
             LET u == update_project_settings(project_settings, order,
                          r1[pname].attrs, r1[pname].attrs, save_ok)
                 r2 == [r1 EXCEPT ![pname].attrs = u.server]
                 ops2 == ops1 \cup {"settings"} \cup (IF u.saves > 0 THEN {"save"} ELSE {})
             IN IF u.result = "KeyError"
                THEN [base EXCEPT !.ret = "raise", !.outcome = "settings_raised",
                                  !.ops = ops2, !.dests = d1, !.remote = r2]
                ELSE [base EXCEPT !.ret = "True",
                                  !.outcome = IF u.result = "save_failed"
                                              THEN "save_failed" ELSE "imported",
                                  !.ops = ops2, !.dests = d1, !.remote = r2]

\* ------------------------------------------------------------------ run

\* the settings of the runs: nothing given; --visibility public with
\* --disable-issues; --visibility private alone
RunSettings ==
    { s \in parse_args :
        /\ \A n \in {"merge_requests", "wiki", "snippets"} : s[n] = None
        /\ <<s["visibility"], s["issues"]>> \in
               { <<None, None>>, <<"public", "False">>, <<"private", None>> } }

RunOrders == { o \in Orders : o[1] = "visibility" /\ o[2] = "issues" }

\* the values of the variables a specification does not use
Idle == [index |-> 0, outcome |-> "none", ops |-> {}]

NoCopy == [copied |-> {}, errors |-> {}]

Init ==
    /\ repo_paths \in UNION { [1..n -> PathChoices] : n \in 1..MaxRepos }
    /\ project_settings \in RunSettings
    /\ order \in RunOrders
    /\ remove_on_fail \in BOOLEAN
    /\ ignore_broken_links \in BOOLEAN
    /\ ignore_refs_remotes \in BOOLEAN
    /\ migrate_hooks \in BOOLEAN
    /\ dests \in { [n \in Stems |-> NoDir],
                   [n \in Stems |-> IF n = "foo" THEN Dir({Entry(<<"HEAD">>, "file")})
                                    ELSE NoDir] }
    /\ remote = [n \in Stems |-> IF dests[n].exists
                                 THEN [exists |-> TRUE, attrs |-> NewProject]
                                 ELSE NoProject]
    /\ pc = "start"
    /\ i = 1
    /\ succeeded = 0
    /\ failed = 0
    /\ exit_status = "running"
    /\ last = Idle
    /\ project = NewProject
    /\ saves = <<>>
    /\ call_result = <<>>
    /\ src_tree = {}
    /\ copy_result = NoCopy

inputs == <<repo_paths, project_settings, order, remove_on_fail, ignore_broken_links,
            ignore_refs_remotes, migrate_hooks>>

\* run() up to the loop: SystemExit(1) if the group's directory does not exist
RunStart ==
    /\ pc = "start"
    /\ \E group_exists \in BOOLEAN :
          IF group_exists
          THEN pc' = "loop" /\ exit_status' = exit_status
          ELSE pc' = "aborted" /\ exit_status' = "1"
    /\ UNCHANGED <<inputs, dests, remote, i, succeeded, failed, last, project, saves,
                   call_result, src_tree, copy_result>>

\* one iteration of the loop for a path that does not exist: logged, continue
RunSkipMissing ==
    /\ pc = "loop"
    /\ i <= Len(repo_paths)
    /\ last' = [index |-> i, outcome |-> "missing", ops |-> {}]
    /\ i' = i + 1
    /\ UNCHANGED <<inputs, dests, remote, pc, succeeded, failed, exit_status, project, saves,
                   call_result, src_tree, copy_result>>

\* one iteration of the loop for a path that exists: do_repo, then the tallies;
\* an exception that leaves do_repo leaves run() and ends the process
RunDoRepo ==
    /\ pc = "loop"
    /\ i <= Len(repo_paths)
    /\ \E env_error \in {"none", "makedirs", "chown"},
          import_result \in {"ok", "nonzero"} :
       \E listed \in (IF import_result = "ok" THEN BOOLEAN ELSE {TRUE}) :
       \E save_ok \in (IF import_result = "ok" /\ listed THEN BOOLEAN ELSE {TRUE}) :
       \E r \in { do_repo(repo_paths[i], source_tree(repo_paths[i]), env_error,
                          import_result, listed, save_ok) } :
             /\ last' = [index |-> i, outcome |-> r.outcome, ops |-> r.ops]
             /\ dests' = r.dests
             /\ remote' = r.remote
             /\ IF r.ret = "raise"
                THEN /\ pc' = "crashed"
                     /\ exit_status' = "1"
                     /\ UNCHANGED <<i, succeeded, failed>>
                ELSE /\ i' = i + 1
                     /\ succeeded' = IF r.ret = "True" THEN succeeded + 1 ELSE succeeded
                     /\ failed' = IF r.ret = "True" THEN failed ELSE failed + 1
                     /\ UNCHANGED <<pc, exit_status>>
    /\ UNCHANGED <<inputs, project, saves, call_result, src_tree, copy_result>>

\* run() after the loop: SystemExit(1) if failed > 0
RunFinish ==
    /\ pc = "loop"
    /\ i > Len(repo_paths)
    /\ pc' = "done"
    /\ exit_status' = IF failed > 0 THEN "1" ELSE "0"
    /\ UNCHANGED <<inputs, dests, remote, i, succeeded, failed, last, project, saves,
                   call_result, src_tree, copy_result>>

Next == RunStart \/ RunSkipMissing \/ RunDoRepo \/ RunFinish

Spec == Init /\ [][Next]_vars

\* ------------------------------------------------------------------ update_project_settings alone

\* the project the calls are made on is the project "foo" of the server
InitSettings ==
    /\ project_settings \in parse_args
    /\ order \in Orders
    /\ project \in Projects
    /\ remote = [n \in Stems |-> IF n = "foo" THEN [exists |-> TRUE, attrs |-> project]
                                 ELSE NoProject]
    /\ saves = <<>>
    /\ call_result = <<>>
    /\ repo_paths = <<>>
    /\ remove_on_fail = FALSE
    /\ ignore_broken_links = FALSE
    /\ ignore_refs_remotes = FALSE
    /\ migrate_hooks = FALSE
    /\ dests = [n \in Stems |-> NoDir]
    /\ pc = "settings"
    /\ i = 1
    /\ succeeded = 0
    /\ failed = 0
    /\ exit_status = "running"
    /\ last = Idle
    /\ src_tree = {}
    /\ copy_result = NoCopy

\* one call update_project_settings(project_settings, project), the save
\* succeeding or raising
CallUpdateProjectSettings ==
    /\ pc = "settings"
    /\ Len(saves) < MaxCalls
    /\ \E save_ok \in BOOLEAN :
       \E u \in { update_project_settings(project_settings, order, project,
                                          remote["foo"].attrs, save_ok) } :
          /\ project' = u.project
          /\ remote' = [remote EXCEPT !["foo"].attrs = u.server]
          /\ saves' = Append(saves, u.saves)
          /\ call_result' = Append(call_result, u.result)
    /\ UNCHANGED <<inputs, dests, pc, i, succeeded, failed, exit_status, last, src_tree,
                   copy_result>>

NextSettings == CallUpdateProjectSettings

SpecSettings == InitSettings /\ [][NextSettings]_vars

\* ------------------------------------------------------------------ the copy alone

InitCopy ==
    /\ src_tree \in Trees
    /\ ignore_broken_links \in BOOLEAN
    /\ ignore_refs_remotes \in BOOLEAN
    /\ copy_result = NoCopy
    /\ pc = "copy"
    /\ repo_paths = <<>>
    /\ project_settings = [n \in SettingNames |-> None]
    /\ order = <<"visibility", "issues", "merge_requests", "wiki", "snippets">>
    /\ remove_on_fail = FALSE
    /\ migrate_hooks = FALSE
    /\ dests = [n \in Stems |-> NoDir]
    /\ remote = [n \in Stems |-> NoProject]
    /\ i = 1
    /\ succeeded = 0
    /\ failed = 0
    /\ exit_status = "running"
    /\ last = Idle
    /\ project = NewProject
    /\ saves = <<>>
    /\ call_result = <<>>

\* shutil.copytree(repo_path, dest_path, ignore=self.ignore_files_callback)
CopyTree ==
    /\ pc = "copy"
    /\ copy_result' = copytree(src_tree, <<>>, ignore_broken_links, ignore_refs_remotes)
    /\ pc' = "copied"
    /\ UNCHANGED <<repo_paths, project_settings, order, remove_on_fail,
                   ignore_broken_links, ignore_refs_remotes, migrate_hooks, dests, remote,
                   i, succeeded, failed, exit_status, last, project, saves, call_result,
                   src_tree>>

NextCopy == CopyTree

SpecCopy == InitCopy /\ [][NextCopy]_vars

\* ------------------------------------------------------------------ properties

\* the step just taken ran the loop body for repo_paths[i]
Handled == pc = "loop" /\ i <= Len(repo_paths) /\ last'.index = i

\* the step just taken called do_repo for repo_paths[i]
DidRepo == Handled /\ last'.outcome # "missing"

\* the step just taken was a call of update_project_settings
Called == Len(saves') = Len(saves) + 1

\* the project attribute a setting stands for, and the value a target asks for
attr_of(n) == IF n = "visibility" THEN "visibility_level" ELSE BOOLEAN_SETTING_NAMES[n]

target_of(n, value) == IF n = "visibility" THEN VISIBILITY_LEVELS[value] ELSE value

\* some setting with a non-null target differs from the project's value
Differs(settings, proj) ==
    \E n \in SettingNames :
        settings[n] # None /\ proj[attr_of(n)] # target_of(n, settings[n])

\* C1: once the group directory exists, the run ends only after the loop has
\* reached the last path of repo_paths: no outcome of one repo keeps the loop
\* from a later path.
C1_EveryPathHandled ==
    (exit_status # "running" /\ pc # "aborted") => last.index = Len(repo_paths)

\* C2: a path that does not exist is skipped (the filesystem and the server are
\* left alone), is counted in the failed tally, and the loop goes on.
C2_MissingCountedFailed ==
    [][(Handled /\ last'.outcome = "missing") =>
          (/\ failed' = failed + 1
           /\ dests' = dests /\ remote' = remote /\ last'.ops = {}
           /\ i' = i + 1 /\ pc' = "loop")]_vars

\* C3: after the loop the exit status is 1 if some requested repo failed and 0
\* only if every requested repo was imported, and succeeded + failed is the
\* number of requested repo paths.
C3_ExitStatusAndTallies ==
    pc = "done" =>
        (/\ succeeded + failed = Len(repo_paths)
         /\ exit_status = "0" <=> succeeded = Len(repo_paths)
         /\ exit_status = "1" <=> failed > 0)

\* C4: in one call of update_project_settings, a setting whose target is None
\* leaves its project attribute as it was, and the call completes normally.
C4_NoneCausesNoChange ==
    [][Called =>
          (/\ call_result'[Len(call_result')] # "KeyError"
           /\ \A n \in SettingNames :
                 project_settings[n] = None => project'[attr_of(n)] = project[attr_of(n)])]_vars

\* C5: a repo whose settings save failed is counted in the failed tally (and
\* not in succeeded), and the loop goes on with the next repo.
C5_SaveFailureCountedFailed ==
    [][(DidRepo /\ last'.outcome = "save_failed") =>
          (failed' = failed + 1 /\ succeeded' = succeeded /\ i' = i + 1 /\ pc' = "loop")]_vars

\* C6: with remove_on_fail set, after do_repo failed in the copy step or in the
\* import command (so the destination did not exist beforehand), the
\* destination directory of that repo does not exist.
C6_DestRemovedOnFailure ==
    (remove_on_fail /\ last.outcome \in {"copy_failed", "import_failed"}) =>
        ~dests[repo_name(repo_paths[last.index])].exists

\* C7: of successive update_project_settings calls on one project object with
\* the same targets, every call after the first makes no project.save() call.
C7_SecondCallNoWrite ==
    \A k \in 2..Len(saves) : saves[k] = 0

\* C7 witness: the first call saved (the save even failed), the second did not
C7_Witness ==
    /\ Len(saves) = 2
    /\ saves[1] = 1 /\ call_result[1] = "save_failed"
    /\ saves[2] = 0 /\ call_result[2] = "no_changes"

\* C8: one call of update_project_settings makes exactly one save() call if some
\* setting with a non-null target differs from the project's value, and none
\* otherwise; when it saves, every non-null target is on the project.
C8_OneWriteIffDiffers ==
    [][Called =>
          (/\ saves'[Len(saves')] = IF Differs(project_settings, project) THEN 1 ELSE 0
           /\ Differs(project_settings, project) => ~Differs(project_settings, project'))]_vars

\* C9: do_repo called while the destination exists marks the repo failed and
\* does nothing else: the destination and the server are as before, and no
\* copy, chown, hook migration, removal, import or settings update was made.
C9_CollisionLeavesDest ==
    [][(DidRepo /\ dests[repo_name(repo_paths[i])].exists) =>
          (/\ failed' = failed + 1 /\ succeeded' = succeeded
           /\ dests' = dests /\ remote' = remote
           /\ last'.outcome = "collision" /\ last'.ops = {}
           /\ i' = i + 1 /\ pc' = "loop")]_vars

\* C9 witness: a second repo collided, with remove_on_fail set, and its
\* destination is still there
C9_Witness ==
    /\ last.outcome = "collision" /\ last.index = 2
    /\ remove_on_fail
    /\ dests[repo_name(repo_paths[2])].exists
    /\ failed >= 1

\* a symbolic link whose target is missing
Broken(e) == e.kind = "broken"

\* C10 as stated: a broken link is left out when ignore_broken_links is set, an
\* entry under refs/remotes is left out when ignore_refs_remotes is set, and a
\* broken link is in the destination when ignore_broken_links is not set.
C10_AsStated ==
    pc = "copied" =>
        \A e \in src_tree :
            /\ (Broken(e) /\ ignore_broken_links) => e \notin copy_result.copied
            /\ (under_refs_remotes(e.path) /\ ignore_refs_remotes) => e \notin copy_result.copied
            /\ (Broken(e) /\ ~ignore_broken_links) => e \in copy_result.copied

\* C10 amended: the two exclusions hold; a broken link is never in the
\* destination, and when ignore_broken_links is not set and the refs/remotes rule
\* does not leave it out, the copy fails on it.
C10_CopyFiltering ==
    pc = "copied" =>
        \A e \in src_tree :
            /\ (Broken(e) /\ ignore_broken_links) => e \notin copy_result.copied
            /\ (under_refs_remotes(e.path) /\ ignore_refs_remotes) => e \notin copy_result.copied
            /\ Broken(e) => e \notin copy_result.copied
            /\ (/\ Broken(e) /\ ~ignore_broken_links
                /\ ~(ignore_refs_remotes /\ startswith_refs_remotes(e.path)))
               => e \in copy_result.errors

\* C10 witness: a copy without ignore_broken_links and with ignore_refs_remotes
\* of a tree that has a broken link outside refs/remotes and one inside
C10_Witness ==
    /\ pc = "copied"
    /\ ~ignore_broken_links /\ ignore_refs_remotes
    /\ Entry(<<"dead">>, "broken") \in src_tree
    /\ Entry(<<"refs", "remotes", "dead">>, "broken") \in src_tree
    /\ copy_result.errors = { Entry(<<"dead">>, "broken") }
    /\ Entry(<<"HEAD">>, "file") \in copy_result.copied

\* what copytree puts at the destination of repo_paths[i]
CopiedOf(repo_path) ==
    copytree(source_tree(repo_path), <<>>, ignore_broken_links, ignore_refs_remotes).copied

\* the destination after 'hooks' was renamed to 'custom_hooks': nothing at or
\* below 'hooks', the former hooks content at 'custom_hooks', the rest as it was
Renamed(entries) ==
    { IF IsPrefix(<<"hooks">>, e.path)
      THEN Entry(Reroot(e.path, <<"hooks">>, <<"custom_hooks">>), e.kind)
      ELSE e : e \in entries }

\* C11: in a do_repo call, hooks are migrated only if migrate_hooks is set and
\* the copied destination has a 'hooks' directory, and whenever that is so once
\* copy and chown went through; the migration is the rename of 'hooks' to
\* 'custom_hooks' and does not fail; without it the destination is as copied.
C11_HookMigrationRenames ==
    [][(DidRepo /\ "copy" \in last'.ops) =>
          LET copied == CopiedOf(repo_paths[i])
              after == dests'[repo_name(repo_paths[i])]
              wanted == migrate_hooks /\ Entry(<<"hooks">>, "dir") \in copied
          IN /\ "move" \in last'.ops => wanted
             /\ (wanted /\ last'.outcome # "copy_failed") => "move" \in last'.ops
             /\ "move" \in last'.ops =>
                   /\ last'.outcome # "copy_failed"
                   /\ after.exists
                   /\ ~has_hooks(after.entries)
                   /\ after.entries = Renamed(copied)
             /\ ("move" \notin last'.ops /\ last'.outcome # "copy_failed") =>
                   (after.exists /\ after.entries = copied)]_vars

====
